---- MODULE Spec2Model ----
(***************************************************************************)
(* BetterMenu: the menu engine of BetterMenu.h (menu_runtime_t), its       *)
(* capability table (menu_ops_t), the viewport clamp and the line          *)
(* formatter, as a state machine.  One service() tick is the sequence of   *)
(* steps  clamp -> render if dirty -> poll -> apply;  pc is the position   *)
(* inside service(), pc = "idle" is the state between two service() calls. *)
(***************************************************************************)
EXTENDS Integers, Sequences, FiniteSets, TLC

(* ------------------------- configuration -------------------------------- *)

MENU_MAX_STACK == 8
MENU_MAX_LINE == 64

(* uint8_t arithmetic: every (uint8_t) cast and uint8_t assignment *)
U8(x) == x % 256
Min(a, b) == IF a < b THEN a ELSE b
Max(a, b) == IF a > b THEN a ELSE b

(* ------------------------- enumerations ---------------------------------- *)

Choice_Invalid == "Invalid"
Choice_Left == "Left"
Choice_Right == "Right"
Choice_Up == "Up"
Choice_Down == "Down"
Choice_Select == "Select"
Choice_Cancel == "Cancel"
choice_t == {Choice_Invalid, Choice_Left, Choice_Right, Choice_Up, Choice_Down,
             Choice_Select, Choice_Cancel}

ENTRY_FUNC == "FUNC"
ENTRY_MENU == "MENU"
ENTRY_INT == "INT"

(* ------------------------- menu entities --------------------------------- *)
(* Labels and row texts are sequences of characters.                        *)

item_int_t(label, ptr, minv, maxv) ==
    [type |-> ENTRY_INT, label |-> label, ptr |-> ptr, minv |-> minv,
     maxv |-> maxv, fn |-> "null", child |-> "null"]
item_func_t(label, fn) ==
    [type |-> ENTRY_FUNC, label |-> label, ptr |-> "null", minv |-> 0,
     maxv |-> 0, fn |-> fn, child |-> "null"]
item_menu_t(label, child) ==
    [type |-> ENTRY_MENU, label |-> label, ptr |-> "null", minv |-> 0,
     maxv |-> 0, fn |-> "null", child |-> child]

(* The integer storage the INT items point to, with the values the host    *)
(* gives it before setup().                                                *)
IntVars == {"volume", "speed", "level"}
InitialInts == [p \in IntVars |->
                  CASE p = "volume" -> 5 [] p = "speed" -> 3 [] OTHER -> 0]

(* The menu trees the host declares.  "Main" is the two-entry tree with a  *)
(* one-entry Config submenu; "Demo" holds every entry kind and a submenu   *)
(* with no entries; "Deep" is a chain of submenus deeper than the          *)
(* navigation stack.                                                       *)
MenuIds == {"Main", "Config", "Demo", "Settings", "Empty", "Single",
            "Deep", "D1", "D2", "D3", "D4", "D5", "D6", "D7", "D8", "Fmt"}

(* "Fmt": for each length in LabelLens an Action and an Integer entry with *)
(* a label of that length                                                  *)
LabelLens == << 0, 3, 50, 61, 62, 70 >>
LabelOfLen(n) == [i \in 1..n |-> "x"]
FmtItems == [i \in 1..(2 * Len(LabelLens)) |->
               IF i % 2 = 1
               THEN item_func_t(LabelOfLen(LabelLens[(i + 1) \div 2]), "fn_hello")
               ELSE item_int_t(LabelOfLen(LabelLens[i \div 2]), "volume", -32767, 32767)]

items(m) ==
    CASE m = "Main" ->
           << item_menu_t(<<"C","f","g">>, "Config"),
              item_func_t(<<"B","l","i","n","k">>, "fn_blink") >>
      [] m = "Config" ->
           << item_int_t(<<"V","o","l">>, "volume", 0, 10) >>
      [] m = "Demo" ->
           << item_menu_t(<<"S","e","t">>, "Settings"),
              item_func_t(<<"R","e","s","e","t">>, "fn_reset"),
              item_func_t(<<"N","o","n","e">>, "null"),
              item_menu_t(<<"E","m","p","t","y">>, "Empty") >>
      [] m = "Settings" ->
           << item_int_t(<<"S","p","e","e","d">>, "speed", 2, 4),
              item_int_t(<<"L","e","v","e","l">>, "level", -1, 0),
              item_func_t(<<"H","i">>, "fn_hello") >>
      [] m = "Empty" -> << >>
      [] m = "Fmt" -> FmtItems
      [] m = "Single" -> << item_func_t(<<"H","i">>, "fn_hello") >>
      [] m = "Deep" -> << item_func_t(<<"H","i">>, "fn_hello"), item_menu_t(<<"1">>, "D1") >>
      [] m = "D1" -> << item_menu_t(<<"2">>, "D2") >>
      [] m = "D2" -> << item_menu_t(<<"3">>, "D3") >>
      [] m = "D3" -> << item_menu_t(<<"4">>, "D4") >>
      [] m = "D4" -> << item_menu_t(<<"5">>, "D5") >>
      [] m = "D5" -> << item_menu_t(<<"6">>, "D6") >>
      [] m = "D6" -> << item_menu_t(<<"7">>, "D7") >>
      [] m = "D7" -> << item_func_t(<<"H","i">>, "fn_hello"), item_menu_t(<<"8">>, "D8") >>
      [] OTHER -> << item_func_t(<<"H","i">>, "fn_hello") >>

(* ------------------------- capability table ------------------------------ *)
(* ops_for<menu_t<Items...>> and the pack walkers; idx is a uint8_t, the    *)
(* walk past the last item ends in the pack_nil overload.                   *)

InPack(m, idx) == idx >= 0 /\ idx < Len(items(m))
item_at(m, idx) == items(m)[idx + 1]

count(m) == U8(Len(items(m)))
label_at(m, idx) == IF InPack(m, idx) THEN item_at(m, idx).label ELSE << >>
type_at(m, idx) == IF InPack(m, idx) THEN item_at(m, idx).type ELSE ENTRY_FUNC
int_has(m, idx) == IF InPack(m, idx) THEN item_at(m, idx).type = ENTRY_INT ELSE FALSE
int_get(m, idx, mem) ==
    IF InPack(m, idx) /\ item_at(m, idx).type = ENTRY_INT
    THEN mem[item_at(m, idx).ptr] ELSE 0
int_set(m, idx, v, mem) ==
    IF InPack(m, idx) /\ item_at(m, idx).type = ENTRY_INT
    THEN [mem EXCEPT ![item_at(m, idx).ptr] = v] ELSE mem
int_min(m, idx) ==
    IF InPack(m, idx) /\ item_at(m, idx).type = ENTRY_INT
    THEN item_at(m, idx).minv ELSE 0
int_max(m, idx) ==
    IF InPack(m, idx) /\ item_at(m, idx).type = ENTRY_INT
    THEN item_at(m, idx).maxv ELSE 0
(* the places a caller of child_at gives for the two outputs: has_child and *)
(* has_ops say that the pointer is not null, child_ptr and child_ops hold   *)
(* what the places contain                                                  *)
out_t(has_child, has_ops, child_ptr, child_ops) ==
    [has_child |-> has_child, has_ops |-> has_ops, child_ptr |-> child_ptr,
     child_ops |-> child_ops]

(* child_at_pack storing null in the outputs when it fails *)
child_at_pack_clears(m, idx, out) ==
    IF InPack(m, idx) /\ item_at(m, idx).type = ENTRY_MENU /\ out.has_child /\ out.has_ops
    THEN [ok |-> TRUE, child_ptr |-> item_at(m, idx).child,
          child_ops |-> item_at(m, idx).child]
    ELSE [ok |-> FALSE, child_ptr |-> "null", child_ops |-> "null"]

(* _child_at: [ok, child_ptr, child_ops], the return value and the content *)
(* of the two places afterwards; they are written only on success          *)
child_at_pack(m, idx, out) ==
    IF InPack(m, idx) /\ item_at(m, idx).type = ENTRY_MENU /\ out.has_child /\ out.has_ops
    THEN [ok |-> TRUE, child_ptr |-> item_at(m, idx).child,
          child_ops |-> item_at(m, idx).child]
    ELSE [ok |-> FALSE, child_ptr |-> out.child_ptr, child_ops |-> out.child_ops]

(* child_at as service() calls it, on two locals holding 0 *)
child_at(m, idx) == child_at_pack(m, idx, out_t(TRUE, TRUE, "null", "null"))

(* The host's action callbacks: their effect on the integer storage.       *)
fn_effect(fn, mem) == IF fn = "fn_reset" THEN InitialInts ELSE mem
(* call_func invoking the callback twice *)
call_func_twice(m, idx, mem) ==
    IF InPack(m, idx) /\ item_at(m, idx).type = ENTRY_FUNC /\ item_at(m, idx).fn # "null"
    THEN [called |-> << item_at(m, idx).fn, item_at(m, idx).fn >>,
          mem |-> fn_effect(item_at(m, idx).fn, fn_effect(item_at(m, idx).fn, mem))]
    ELSE [called |-> << >>, mem |-> mem]

(* call_func: [called, mem]; called lists the callbacks invoked *)
call_func(m, idx, mem) ==
    IF InPack(m, idx) /\ item_at(m, idx).type = ENTRY_FUNC /\ item_at(m, idx).fn # "null"
    THEN [called |-> << item_at(m, idx).fn >>, mem |-> fn_effect(item_at(m, idx).fn, mem)]
    ELSE [called |-> << >>, mem |-> mem]

(* ------------------------- display ---------------------------------------- *)

display_t(width, height) == [width |-> width, height |-> height]

min_u8(a, b) == IF a < b THEN a ELSE b
effective_height(d, total) == IF d.height = 0 THEN total ELSE d.height
effective_width(d) == IF d.width = 0 THEN U8(MENU_MAX_LINE) ELSE d.width

(* ------------------------- line formatter --------------------------------- *)

Prefix(s, n) == SubSeq(s, 1, Min(Len(s), Max(n, 0)))

(* unsigned int uv = neg ? (unsigned int)(-v) : (unsigned int)v; int is the *)
(* 16-bit int of the AVR targets                                            *)
UIntOf(v) == IF v < 0 THEN (0 - v) % 65536 ELSE v

DigitChar(d) == << "0", "1", "2", "3", "4", "5", "6", "7", "8", "9" >>[d + 1]

(* the do/while of int_to_str: the digits of uv, most significant first *)
RECURSIVE Digits(_)
Digits(uv) == IF uv < 10 THEN << DigitChar(uv) >>
              ELSE Digits(uv \div 10) \o << DigitChar(uv % 10) >>

(* int_to_str(v, buf, cap): the string left in buf (cap = 0 writes nothing) *)
int_to_str(v, cap) ==
    IF cap = 0 THEN << >>
    ELSE Prefix((IF v < 0 THEN << "-" >> ELSE << >>) \o Digits(UIntOf(v)), cap - 1)

(* append_capped(dst, cap, src): the string in dst afterwards *)
append_capped(dst, cap, src) ==
    IF U8(Len(dst)) >= cap
    THEN (IF cap # 0 THEN Prefix(dst, cap - 1) ELSE dst)
    ELSE dst \o Prefix(src, (cap - 1) - U8(Len(dst)))

(* format_line(cur, idx, out_buf): the row text written into out_buf; it   *)
(* occupies Len(text) + 1 bytes of out_buf, terminator included.           *)
format_line(cur, idx, disp, use_numbers, editing, mem) ==
    LET cap == effective_width(disp)
        b0 == append_capped(<< >>, cap, IF idx = cur.selected THEN << ">" >> ELSE << " " >>)
        b1 == IF use_numbers
              THEN append_capped(append_capped(b0, cap, int_to_str(idx + 1, 6)), cap, << " " >>)
              ELSE b0
        b2 == append_capped(b1, cap, label_at(cur.menu_ptr, idx))
        isint == type_at(cur.menu_ptr, idx) = ENTRY_INT /\ int_has(cur.menu_ptr, idx)
        b3 == IF isint
              THEN append_capped(append_capped(b2, cap, << ":", " " >>), cap,
                                 int_to_str(int_get(cur.menu_ptr, idx, mem), 12))
              ELSE b2
        b4 == IF isint /\ editing /\ idx = cur.selected
              THEN append_capped(b3, cap, << " ", " ", "(", "e", "d", "i", "t", ")" >>)
              ELSE b3
    IN b4

(* ------------------------- viewport clamp --------------------------------- *)

(* clamp_view without the advance of top when selected is below the window *)
clamp_view_no_advance(c, total, height) ==
    IF total = 0 THEN [c EXCEPT !.selected = 0, !.top = 0]
    ELSE LET sel == IF c.selected >= total THEN U8(total - 1) ELSE c.selected
             t2  == IF sel < c.top THEN sel ELSE c.top
             t3  == IF t2 >= total THEN U8(total - 1) ELSE t2
         IN [c EXCEPT !.selected = sel, !.top = t3]

clamp_view(c, total, height) ==
    IF total = 0 THEN [c EXCEPT !.selected = 0, !.top = 0]
    ELSE LET sel == IF c.selected >= total THEN U8(total - 1) ELSE c.selected
             w0  == IF height = 0 THEN total ELSE height
             win == IF w0 = 0 THEN 1 ELSE w0
             t1  == IF U8(c.top + win) <= sel THEN U8(sel - (win - 1)) ELSE c.top
             t2  == IF sel < t1 THEN sel ELSE t1
             t3  == IF t2 >= total THEN U8(total - 1) ELSE t2
         IN [c EXCEPT !.selected = sel, !.top = t3]

(* ------------------------- render ------------------------------------------ *)

(* the for loop of render from iteration i on: the write_line calls made *)
RECURSIVE render_rows(_, _, _, _, _, _, _, _)
render_rows(cur, i, visible, total, disp, use_numbers, editing, mem) ==
    IF ~(i < visible) THEN << >>
    ELSE LET item_idx == U8(cur.top + i)
         IN IF item_idx >= total THEN << >>
            ELSE << [row |-> U8(0 + i),
                     text |-> format_line(cur, item_idx, disp, use_numbers, editing, mem)] >>
                 \o render_rows(cur, U8(i + 1), visible, total, disp, use_numbers, editing, mem)

render(cur, disp, use_numbers, editing, mem) ==
    LET total == count(cur.menu_ptr)
        visible == IF disp.height = 0 THEN total ELSE min_u8(disp.height, total)
    IN render_rows(cur, 0, visible, total, disp, use_numbers, editing, mem)

(* ------------------------- navigation stack ------------------------------- *)

menu_cursor_t(menu_ptr, ops, selected, top) ==
    [menu_ptr |-> menu_ptr, ops |-> ops, selected |-> selected, top |-> top]

(* a stack slot base_init never writes: nothing reads it before push does *)
UnsetCursor == menu_cursor_t("unset", "unset", 0, 0)

(* push leaving selected and top of the slot as the last visit left them *)
push_keeps_cursor(st, child_ptr, child_ops) ==
    IF st.depth + 1 >= MENU_MAX_STACK THEN [ok |-> FALSE, st |-> st]
    ELSE LET d == U8(st.depth + 1)
         IN [ok |-> TRUE,
             st |-> [st EXCEPT !.depth = d,
                               !.stack[d] = menu_cursor_t(child_ptr, child_ops,
                                                          st.stack[d].selected,
                                                          st.stack[d].top),
                               !.dirty = TRUE]]

(* push accepting one level too many *)
push_off_by_one(st, child_ptr, child_ops) ==
    IF st.depth + 1 > MENU_MAX_STACK THEN [ok |-> FALSE, st |-> st]
    ELSE LET d == U8(st.depth + 1)
         IN [ok |-> TRUE,
             st |-> [st EXCEPT !.depth = d,
                               !.stack[d] = menu_cursor_t(child_ptr, child_ops, 0, 0),
                               !.dirty = TRUE]]

(* push(child_ptr, child_ops) on the runtime fields st: [ok, st] *)
push(st, child_ptr, child_ops) ==
    IF st.depth + 1 >= MENU_MAX_STACK THEN [ok |-> FALSE, st |-> st]
    ELSE LET d == U8(st.depth + 1)
         IN [ok |-> TRUE,
             st |-> [st EXCEPT !.depth = d,
                               !.stack[d] = menu_cursor_t(child_ptr, child_ops, 0, 0),
                               !.dirty = TRUE]]

(* pop without the test for the root *)
pop_unguarded(st) ==
    [ok |-> TRUE, st |-> [st EXCEPT !.depth = U8(st.depth - 1), !.dirty = TRUE]]

(* pop moving the cursor it returns to back to the first entry *)
pop_resets_parent(st) ==
    IF st.depth = 0 THEN [ok |-> FALSE, st |-> st]
    ELSE LET d == U8(st.depth - 1)
         IN [ok |-> TRUE,
             st |-> [st EXCEPT !.depth = d, !.stack[d].selected = 0,
                               !.stack[d].top = 0, !.dirty = TRUE]]

(* pop() on the runtime fields st: [ok, st] *)
pop(st) ==
    IF st.depth = 0 THEN [ok |-> FALSE, st |-> st]
    ELSE [ok |-> TRUE, st |-> [st EXCEPT !.depth = U8(st.depth - 1), !.dirty = TRUE]]

(* ------------------------- service(): the transitions --------------------- *)
(* st holds the fields a transition reads and writes:                       *)
(*   stack, depth, editing, dirty, edit_original, mem (the int storage),    *)
(*   called (the action callbacks invoked in this tick).                    *)

(* edit_up adding two *)
edit_up_by_two(st, v, mx) ==
    LET cur == st.stack[st.depth]
    IN IF v < mx
       THEN [st EXCEPT !.mem = int_set(cur.menu_ptr, cur.selected, v + 2, st.mem),
                       !.dirty = TRUE]
       ELSE st

(* edit_up stepping past max *)
edit_up_inclusive(st, v, mx) ==
    LET cur == st.stack[st.depth]
    IN IF v <= mx
       THEN [st EXCEPT !.mem = int_set(cur.menu_ptr, cur.selected, v + 1, st.mem),
                       !.dirty = TRUE]
       ELSE st

(* case Choice_Up of the editing switch, line 437 *)
edit_up(st, v, mx) ==
    LET cur == st.stack[st.depth]
    IN IF v < mx
       THEN [st EXCEPT !.mem = int_set(cur.menu_ptr, cur.selected, v + 1, st.mem),
                       !.dirty = TRUE]
       ELSE st

(* edit_down storing the new value without marking the view dirty *)
edit_down_silent(st, v, mn) ==
    LET cur == st.stack[st.depth]
    IN IF v > mn
       THEN [st EXCEPT !.mem = int_set(cur.menu_ptr, cur.selected, v - 1, st.mem)]
       ELSE st

(* case Choice_Down of the editing switch, line 438 *)
edit_down(st, v, mn) ==
    LET cur == st.stack[st.depth]
    IN IF v > mn
       THEN [st EXCEPT !.mem = int_set(cur.menu_ptr, cur.selected, v - 1, st.mem),
                       !.dirty = TRUE]
       ELSE st

(* edit_cancel leaving the edited value in place *)
edit_cancel_keeps(st) == [st EXCEPT !.editing = FALSE, !.dirty = TRUE]

(* case Choice_Cancel of the editing switch, line 440 *)
edit_cancel(st) ==
    LET cur == st.stack[st.depth]
    IN [st EXCEPT !.mem = int_set(cur.menu_ptr, cur.selected, st.edit_original, st.mem),
                  !.editing = FALSE, !.dirty = TRUE]

(* edit_select writing edit_original back *)
edit_select_restores(st) ==
    LET cur == st.stack[st.depth]
    IN [st EXCEPT !.mem = int_set(cur.menu_ptr, cur.selected, st.edit_original, st.mem),
                  !.editing = FALSE, !.dirty = TRUE]

(* case Choice_Select of the editing switch, line 439 *)
edit_select(st) == [st EXCEPT !.editing = FALSE, !.dirty = TRUE]

(* the editing branch with Cancel also going back one level *)
editing_transition_cancel_pops(st, c) ==
    LET cur == st.stack[st.depth]
        m   == cur.menu_ptr
    IN IF ~int_has(m, cur.selected)
       THEN [st EXCEPT !.editing = FALSE, !.dirty = TRUE]
       ELSE LET v  == int_get(m, cur.selected, st.mem)
                mn == int_min(m, cur.selected)
                mx == int_max(m, cur.selected)
            IN CASE c = Choice_Up -> edit_up(st, v, mx)
                 [] c = Choice_Down -> edit_down(st, v, mn)
                 [] c = Choice_Select -> edit_select(st)
                 [] c = Choice_Cancel -> pop(edit_cancel(st)).st
                 [] OTHER -> st

(* the editing branch of service(), lines 431-444 *)
editing_transition(st, c) ==
    LET cur == st.stack[st.depth]
        m   == cur.menu_ptr
    IN IF ~int_has(m, cur.selected)
       THEN [st EXCEPT !.editing = FALSE, !.dirty = TRUE]
       ELSE LET v  == int_get(m, cur.selected, st.mem)
                mn == int_min(m, cur.selected)
                mx == int_max(m, cur.selected)
            IN CASE c = Choice_Up -> edit_up(st, v, mx)
                 [] c = Choice_Down -> edit_down(st, v, mn)
                 [] c = Choice_Select -> edit_select(st)
                 [] c = Choice_Cancel -> edit_cancel(st)
                 [] OTHER -> st

(* browse_up without the wrap from index 0 *)
browse_up_nowrap(st, total) ==
    IF total # 0
    THEN LET old == st.stack[st.depth].selected
             new == U8(old - 1)
         IN [st EXCEPT !.stack[st.depth].selected = new,
                       !.dirty = IF new # old THEN TRUE ELSE st.dirty]
    ELSE st

(* browse_up without the test of total *)
browse_up_unguarded(st, total) ==
    LET old == st.stack[st.depth].selected
        new == IF old = 0 THEN U8(total - 1) ELSE U8(old - 1)
    IN [st EXCEPT !.stack[st.depth].selected = new,
                  !.dirty = IF new # old THEN TRUE ELSE st.dirty]

(* case Choice_Up of the browsing switch, line 448 *)
browse_up(st, total) ==
    IF total # 0
    THEN LET old == st.stack[st.depth].selected
             new == IF old = 0 THEN U8(total - 1) ELSE U8(old - 1)
         IN [st EXCEPT !.stack[st.depth].selected = new,
                       !.dirty = IF new # old THEN TRUE ELSE st.dirty]
    ELSE st

(* browse_down marking the view dirty whenever the tree has entries *)
browse_down_always_dirty(st, total) ==
    IF total # 0
    THEN LET old == st.stack[st.depth].selected
             new == U8((old + 1) % total)
         IN [st EXCEPT !.stack[st.depth].selected = new, !.dirty = TRUE]
    ELSE st

(* case Choice_Down of the browsing switch, line 451 *)
browse_down(st, total) ==
    IF total # 0
    THEN LET old == st.stack[st.depth].selected
             new == U8((old + 1) % total)
         IN [st EXCEPT !.stack[st.depth].selected = new,
                       !.dirty = IF new # old THEN TRUE ELSE st.dirty]
    ELSE st

(* browse_select entering Editing on an Action entry as well *)
browse_select_edits_action(st, total) ==
    LET cur == st.stack[st.depth]
        m   == cur.menu_ptr
    IN IF total = 0 THEN st
       ELSE CASE type_at(m, cur.selected) = ENTRY_INT ->
                   IF int_has(m, cur.selected)
                   THEN [st EXCEPT !.edit_original = int_get(m, cur.selected, st.mem),
                                   !.editing = TRUE, !.dirty = TRUE]
                   ELSE st
              [] type_at(m, cur.selected) = ENTRY_FUNC ->
                   LET r == call_func(m, cur.selected, st.mem)
                   IN [st EXCEPT !.mem = r.mem, !.called = st.called \o r.called,
                                 !.editing = TRUE, !.dirty = TRUE]
              [] OTHER ->
                   LET ch == child_at(m, cur.selected)
                   IN IF ch.ok THEN push(st, ch.child_ptr, ch.child_ops).st ELSE st

(* case Choice_Select of the browsing switch, lines 453-466 *)
browse_select(st, total) ==
    LET cur == st.stack[st.depth]
        m   == cur.menu_ptr
    IN IF total = 0 THEN st
       ELSE CASE type_at(m, cur.selected) = ENTRY_INT ->
                   IF int_has(m, cur.selected)
                   THEN [st EXCEPT !.edit_original = int_get(m, cur.selected, st.mem),
                                   !.editing = TRUE, !.dirty = TRUE]
                   ELSE st
              [] type_at(m, cur.selected) = ENTRY_FUNC ->
                   LET r == call_func(m, cur.selected, st.mem)
                   IN [st EXCEPT !.mem = r.mem, !.called = st.called \o r.called,
                                 !.dirty = TRUE]
              [] OTHER ->
                   LET ch == child_at(m, cur.selected)
                   IN IF ch.ok THEN push(st, ch.child_ptr, ch.child_ops).st ELSE st

(* the browsing switch with Choice_Left going back like Choice_Cancel *)
browsing_transition_left_pops(st, c, total) ==
    CASE c = Choice_Up -> browse_up(st, total)
      [] c = Choice_Down -> browse_down(st, total)
      [] c = Choice_Select -> browse_select(st, total)
      [] c = Choice_Cancel -> pop(st).st
      [] c = Choice_Left -> pop(st).st
      [] OTHER -> st

(* the browsing switch of service(), lines 446-474 *)
browsing_transition(st, c, total) ==
    CASE c = Choice_Up -> browse_up(st, total)
      [] c = Choice_Down -> browse_down(st, total)
      [] c = Choice_Select -> browse_select(st, total)
      [] c = Choice_Cancel -> pop(st).st
      [] OTHER -> st

(* service() marking the view dirty before it returns without an event *)
apply_choice_marks_dirty(st, c, total) ==
    IF c = Choice_Invalid THEN [st EXCEPT !.dirty = TRUE]
    ELSE IF st.editing THEN editing_transition(st, c)
    ELSE browsing_transition(st, c, total)

(* service() from the test of choice on, lines 429-475 *)
apply_choice(st, c, total) ==
    IF c = Choice_Invalid THEN st
    ELSE IF st.editing THEN editing_transition(st, c)
    ELSE browsing_transition(st, c, total)

(* ------------------------- service(): polling ------------------------------ *)

PROMPT_EDIT == "U/D=adj  S=save  C=cancel"
PROMPT_BROWSE == "U/D=move  S=select  C=back"

(* the six probes of input_ops_t in the order service() tries them *)
ProbeOrder == << [name |-> "up", choice |-> Choice_Up],
                 [name |-> "down", choice |-> Choice_Down],
                 [name |-> "select", choice |-> Choice_Select],
                 [name |-> "cancel", choice |-> Choice_Cancel],
                 [name |-> "left", choice |-> Choice_Left],
                 [name |-> "right", choice |-> Choice_Right] >>
ProbeNames == {ProbeOrder[i].name : i \in 1..Len(ProbeOrder)}

(* the probes as six separate ifs: every pending edge is consumed *)
RECURSIVE probe_chain_no_else(_, _, _)
probe_chain_no_else(i, ops, edges) ==
    IF i > Len(ProbeOrder)
    THEN [choice |-> Choice_Invalid, probed |-> << >>, taken |-> << >>]
    ELSE LET p == ProbeOrder[i]
             rest == probe_chain_no_else(i + 1, ops, edges)
         IN IF p.name \in ops
            THEN IF p.name \in edges
                 THEN [choice |-> IF rest.choice = Choice_Invalid THEN p.choice ELSE rest.choice,
                       probed |-> << p.name >> \o rest.probed,
                       taken |-> << p.name >> \o rest.taken]
                 ELSE [rest EXCEPT !.probed = << p.name >> \o rest.probed]
            ELSE rest

(* the chain stopping at the first edge for the choice only: the later     *)
(* probes are still called                                                 *)
RECURSIVE probe_chain_probe_all(_, _, _)
probe_chain_probe_all(i, ops, edges) ==
    IF i > Len(ProbeOrder)
    THEN [choice |-> Choice_Invalid, probed |-> << >>, taken |-> << >>]
    ELSE LET p == ProbeOrder[i]
             rest == probe_chain_probe_all(i + 1, ops, edges)
         IN IF p.name \in ops
            THEN IF p.name \in edges
                 THEN [choice |-> p.choice, probed |-> << p.name >> \o rest.probed,
                       taken |-> << p.name >>]
                 ELSE [rest EXCEPT !.probed = << p.name >> \o rest.probed]
            ELSE rest

(* the if / else-if chain of lines 421-426 from probe i on; ops is the set *)
(* of non-null members of input_ops_t, edges the probes that would report  *)
(* an edge if called: [choice, probed (the calls made), taken (the edges   *)
(* consumed)]                                                              *)
RECURSIVE probe_chain(_, _, _)
probe_chain(i, ops, edges) ==
    IF i > Len(ProbeOrder)
    THEN [choice |-> Choice_Invalid, probed |-> << >>, taken |-> << >>]
    ELSE LET p == ProbeOrder[i]
             rest == probe_chain(i + 1, ops, edges)
         IN IF p.name \in ops
            THEN IF p.name \in edges
                 THEN [choice |-> p.choice, probed |-> << p.name >>, taken |-> << p.name >>]
                 ELSE [rest EXCEPT !.probed = << p.name >> \o rest.probed]
            ELSE rest

(* the callback given the prompt on every call *)
poll_input_always_prompt(inp, just_rendered, editing, ret, edges) ==
    IF inp.cb
    THEN [choice |-> ret, probed |-> << "input_cb" >>,
          taken  |-> IF ret # Choice_Invalid THEN << ret >> ELSE << >>,
          prompt |-> IF editing THEN PROMPT_EDIT ELSE PROMPT_BROWSE]
    ELSE IF inp.has_src /\ inp.has_ops
    THEN LET r == probe_chain(1, inp.ops, edges)
         IN [choice |-> r.choice,
             probed |-> (IF "capture" \in inp.ops THEN << "capture" >> ELSE << >>) \o r.probed,
             taken  |-> r.taken, prompt |-> "none"]
    ELSE [choice |-> Choice_Invalid, probed |-> << >>, taken |-> << >>, prompt |-> "none"]

(* lines 415-427: what one tick asks of the input; inp is the runtime's    *)
(* input_cb (cb: non-null), has_src and input_src.ops (has_ops: non-null,  *)
(* ops: its non-null members), ret the callback's answer, edges the        *)
(* provider's pending edges                                                *)
poll_input(inp, just_rendered, editing, ret, edges) ==
    IF inp.cb
    THEN [choice |-> ret, probed |-> << "input_cb" >>,
          taken  |-> IF ret # Choice_Invalid THEN << ret >> ELSE << >>,
          prompt |-> IF just_rendered
                     THEN (IF editing THEN PROMPT_EDIT ELSE PROMPT_BROWSE) ELSE ""]
    ELSE IF inp.has_src /\ inp.has_ops
    THEN LET r == probe_chain(1, inp.ops, edges)
         IN [choice |-> r.choice,
             probed |-> (IF "capture" \in inp.ops THEN << "capture" >> ELSE << >>) \o r.probed,
             taken  |-> r.taken, prompt |-> "none"]
    ELSE [choice |-> Choice_Invalid, probed |-> << >>, taken |-> << >>, prompt |-> "none"]

(* ------------------------- state ------------------------------------------- *)

VARIABLES
    root,           \* the tree handed to make()
    display,        \* display_t: width, height
    use_numbers,
    input,          \* input_cb, has_src, input_src.ops
    initialized, editing, dirty,
    stack, depth, edit_original,
    mem,            \* the int storage the INT items point to
    pc,             \* position inside service(); "idle" between two calls
    \* service()'s locals and what the tick did; they keep the last tick's
    \* values between two calls and are reset when the next call starts
    total,          \* service()'s local total
    just_rendered,  \* service()'s local just_rendered
    choice,         \* service()'s local choice
    screen,         \* the write_line calls of the tick's render pass
    renders,        \* render passes made in this tick
    io,             \* this tick's poll: probed, taken, prompt
    applied,        \* transitions applied in this tick
    called,         \* action callbacks invoked in this tick
    \* history of the current edit session: the value stored when it began
    \* and the Up/Down events applied since (the first MaxMoves of them)
    h_edit,
    \* the cursor each level of the stack below depth had when Select
    \* descended from it
    h_desc,
    \* direct calls of the helpers: the arguments and the result
    cv,             \* clamp_view(c, total, height)
    fl,             \* format_line(cur, idx, out_buf)
    pl,             \* the polling of lines 415-427
    ct,             \* the operations of a capability table
    \* a host whose input callback plays a fixed sequence of events
    script          \* events: the sequence, pos: how many it has returned

vars == << root, display, use_numbers, input, initialized, editing, dirty,
           stack, depth, edit_original, mem, pc, total, just_rendered, choice,
           screen, renders, io, applied, called, h_edit, h_desc, cv, fl, pl, ct,
           script >>
helpers == << cv, fl, pl, ct, script >>
runtime == << root, display, use_numbers, input, initialized, editing, dirty,
              stack, depth, edit_original, mem, pc, total, just_rendered, choice,
              screen, renders, io, applied, called, h_edit, h_desc >>

(* ------------------------- the host's configurations ----------------------- *)

MaxHeight == 3
MaxMoves == 2
Roots == {"Main", "Demo", "Empty", "Single", "Deep"}
(* a line-oriented terminal (0 x 0, numbered items) and character displays, *)
(* one of them a single column wide                                        *)
WidthOf(h) == IF h = 0 THEN 0 ELSE IF h = 1 THEN 6 ELSE IF h = 3 THEN 1 ELSE 16
Hosts == { [display |-> display_t(WidthOf(h), h), use_numbers |-> (h % 2 = 0)] :
             h \in 0..MaxHeight }
AllOps == ProbeNames \cup {"capture"}
(* a provider with some members of input_ops_t left null *)
SomeOps == {"down", "select", "cancel", "right"}
(* make() with a prompt callback, with a null callback, with a provider of *)
(* null ops, of every member and of some members                           *)
InputConfigs == { [cb |-> TRUE, has_src |-> FALSE, has_ops |-> FALSE, ops |-> {}],
                  [cb |-> FALSE, has_src |-> FALSE, has_ops |-> FALSE, ops |-> {}],
                  [cb |-> FALSE, has_src |-> TRUE, has_ops |-> FALSE, ops |-> {}],
                  [cb |-> FALSE, has_src |-> TRUE, has_ops |-> TRUE, ops |-> AllOps],
                  [cb |-> FALSE, has_src |-> TRUE, has_ops |-> TRUE, ops |-> SomeOps] }

NoIo == [probed |-> << >>, taken |-> << >>, prompt |-> "none"]
NoEdit == [start |-> 0, moves |-> << >>, more |-> FALSE]
NoClamp == [phase |-> "none", c |-> UnsetCursor, total |-> 0, height |-> 0,
            out |-> UnsetCursor]
NoFormat == [phase |-> "none", cur |-> UnsetCursor, idx |-> 0, width |-> 0,
             use_numbers |-> FALSE, editing |-> FALSE, value |-> 0, text |-> << >>]
NoScript == [events |-> << >>, pos |-> 0]
NoPoll == [phase |-> "none", ops |-> {}, edges |-> {},
           out |-> [choice |-> Choice_Invalid, probed |-> << >>, taken |-> << >>,
                    prompt |-> "none"]]
NoCap == [phase |-> "none", m |-> "Empty", idx |-> 0, v |-> 0, mem0 |-> InitialInts,
          out |-> out_t(FALSE, FALSE, "null", "null"),
          type_at |-> ENTRY_FUNC, int_has |-> FALSE, int_get |-> 0, int_min |-> 0,
          int_max |-> 0, mem |-> InitialInts, ok |-> FALSE,
          child_ptr |-> "null", child_ops |-> "null"]

(* make(): base_init, then the input fields *)
make(r, host, inp) ==
    /\ root = r
    /\ display = host.display
    /\ use_numbers = host.use_numbers
    /\ input = inp
    /\ initialized = FALSE
    /\ editing = FALSE
    /\ dirty = TRUE
    /\ depth = 0
    /\ edit_original = 0
    /\ stack = [i \in 0..(MENU_MAX_STACK - 1) |->
                  IF i = 0 THEN menu_cursor_t(r, r, 0, 0) ELSE UnsetCursor]
    /\ mem = InitialInts
    /\ pc = "idle"
    /\ total = 0
    /\ just_rendered = FALSE
    /\ choice = Choice_Invalid
    /\ screen = << >>
    /\ renders = 0
    /\ io = NoIo
    /\ applied = 0
    /\ called = << >>
    /\ h_edit = NoEdit
    /\ h_desc = [i \in 0..(MENU_MAX_STACK - 1) |-> UnsetCursor]

Init ==
    /\ \E r \in Roots, host \in Hosts, inp \in InputConfigs : make(r, host, inp)
    /\ cv = NoClamp
    /\ fl = NoFormat
    /\ pl = NoPoll
    /\ ct = NoCap
    /\ script = NoScript

(* ------------------------- actions ------------------------------------------ *)

(* begin(), called by the host's setup() *)
Begin ==
    /\ pc = "idle"
    /\ ~initialized
    /\ initialized' = TRUE
    /\ dirty' = TRUE
    /\ UNCHANGED << root, display, use_numbers, input, editing, stack, depth,
                    edit_original, mem, pc, total, just_rendered, choice, screen,
                    renders, io, applied, called, h_edit, h_desc >>
    /\ UNCHANGED helpers

(* service() lines 405-408: begin() if needed, clamp the viewport *)
ServiceClamp ==
    /\ pc = "idle"
    /\ initialized' = TRUE
    /\ dirty' = IF ~initialized THEN TRUE ELSE dirty
    /\ LET cur == stack[depth]
           tot == count(cur.menu_ptr)
       IN /\ total' = tot
          /\ stack' = [stack EXCEPT ![depth] =
                          clamp_view(cur, tot, effective_height(display, tot))]
    /\ just_rendered' = FALSE
    /\ choice' = Choice_Invalid
    /\ screen' = << >>
    /\ renders' = 0
    /\ io' = NoIo
    /\ applied' = 0
    /\ called' = << >>
    /\ h_edit' = IF editing THEN h_edit ELSE NoEdit
    /\ h_desc' = h_desc
    /\ pc' = "clamped"
    /\ UNCHANGED << root, display, use_numbers, input, editing, depth,
                    edit_original, mem >>
    /\ UNCHANGED helpers

(* service() lines 410-411: render if dirty *)
ServiceRender ==
    /\ pc = "clamped"
    /\ IF dirty
       THEN /\ screen' = render(stack[depth], display, use_numbers, editing, mem)
            /\ renders' = renders + 1
            /\ dirty' = FALSE
            /\ just_rendered' = TRUE
       ELSE UNCHANGED << screen, renders, dirty, just_rendered >>
    /\ pc' = "rendered"
    /\ UNCHANGED << root, display, use_numbers, input, initialized, editing, stack,
                    depth, edit_original, mem, total, choice, io, applied, called,
                    h_edit, h_desc >>
    /\ UNCHANGED helpers

(* service() lines 413-427: poll the input *)
ServicePoll ==
    /\ pc = "rendered"
    /\ \E ret \in (IF input.cb THEN choice_t ELSE {Choice_Invalid}),
          edges \in SUBSET (input.ops \cap ProbeNames) :
         LET r == poll_input(input, just_rendered, editing, ret, edges)
         IN /\ choice' = r.choice
            /\ io' = [probed |-> r.probed, taken |-> r.taken, prompt |-> r.prompt]
    /\ pc' = "polled"
    /\ UNCHANGED << root, display, use_numbers, input, initialized, editing, dirty,
                    stack, depth, edit_original, mem, total, just_rendered, screen,
                    renders, applied, called, h_edit, h_desc >>
    /\ UNCHANGED helpers

(* service() lines 429-475: apply the transition and return *)
ServiceApply ==
    /\ pc = "polled"
    /\ LET st == [stack |-> stack, depth |-> depth, editing |-> editing,
                  dirty |-> dirty, edit_original |-> edit_original, mem |-> mem,
                  called |-> called]
           nx == apply_choice(st, choice, total)
       IN /\ stack' = nx.stack
          /\ depth' = nx.depth
          /\ editing' = nx.editing
          /\ dirty' = nx.dirty
          /\ edit_original' = nx.edit_original
          /\ mem' = nx.mem
          /\ called' = nx.called
          /\ h_edit' =
               IF ~editing /\ nx.editing
               THEN [start |-> int_get(stack[depth].menu_ptr, stack[depth].selected, mem),
                     moves |-> << >>, more |-> FALSE]
               ELSE IF editing /\ choice \in {Choice_Up, Choice_Down}
               THEN (IF Len(h_edit.moves) < MaxMoves
                     THEN [h_edit EXCEPT !.moves = Append(h_edit.moves, choice)]
                     ELSE [h_edit EXCEPT !.more = TRUE])
               ELSE h_edit
          /\ h_desc' =
               IF nx.depth > depth THEN [h_desc EXCEPT ![depth] = stack[depth]]
               ELSE IF nx.depth < depth THEN [h_desc EXCEPT ![nx.depth] = UnsetCursor]
               ELSE h_desc
    /\ applied' = IF choice # Choice_Invalid THEN applied + 1 ELSE applied
    /\ pc' = "idle"
    /\ UNCHANGED << root, display, use_numbers, input, initialized, total,
                    just_rendered, choice, screen, renders, io >>
    /\ UNCHANGED helpers

Next == Begin \/ ServiceClamp \/ ServiceRender \/ ServicePoll \/ ServiceApply

Spec == Init /\ [][Next]_vars

(* ------------------------- clamp_view called directly ---------------------- *)
(* clamp_view is a static function of menu_runtime_t on a menu_cursor_t of   *)
(* public uint8_t fields: its arguments range over uint8_t.  The values      *)
(* taken are the MaxIdx + 1 lowest and the MaxIdx + 1 highest.               *)

MaxIdx == 4
U8Low == 0..MaxIdx
U8High == (255 - MaxIdx)..255
SomeHost == CHOOSE host \in Hosts : host.display.height = 0
SomeInput == CHOOSE inp \in InputConfigs : inp.cb

InitClamp ==
    /\ make("Empty", SomeHost, SomeInput)
    /\ fl = NoFormat
    /\ pl = NoPoll
    /\ ct = NoCap
    /\ script = NoScript
    /\ \E sel \in U8Low \cup U8High, tp \in U8Low \cup U8High,
          tot \in U8Low \cup {MaxIdx + 1} \cup U8High, h \in U8Low \cup U8High :
         cv = [phase |-> "in", c |-> menu_cursor_t("Empty", "Empty", sel, tp),
               total |-> tot, height |-> h, out |-> UnsetCursor]

ClampCall ==
    /\ cv.phase = "in"
    /\ cv' = [cv EXCEPT !.phase = "out", !.out = clamp_view(cv.c, cv.total, cv.height)]
    /\ UNCHANGED << root, display, use_numbers, input, initialized, editing, dirty,
                    stack, depth, edit_original, mem, pc, total, just_rendered, choice,
                    screen, renders, io, applied, called, h_edit, h_desc, fl, pl, ct,
                    script >>

NextClamp == ClampCall

SpecClamp == InitClamp /\ [][NextClamp]_vars

(* ------------------------- format_line called as render calls it ----------- *)
(* One row of the "Fmt" menu formatted for a display of the given width into *)
(* render's line[MENU_MAX_LINE].                                             *)

Widths == {0, 1, 2, 16, MENU_MAX_LINE - 1, MENU_MAX_LINE, MENU_MAX_LINE + 1, 80, 255}
IntSamples == {0, 7, -7, 12345, 32767, -32767}

InitFormat ==
    /\ make("Fmt", SomeHost, SomeInput)
    /\ cv = NoClamp
    /\ pl = NoPoll
    /\ ct = NoCap
    /\ script = NoScript
    /\ \E idx \in 0..(Len(FmtItems) - 1), onsel \in BOOLEAN, w \in Widths,
          nums \in BOOLEAN, ed \in BOOLEAN, v \in IntSamples :
         fl = [phase |-> "in",
               cur |-> menu_cursor_t("Fmt", "Fmt", IF onsel THEN idx ELSE 0, 0),
               idx |-> idx, width |-> w, use_numbers |-> nums, editing |-> ed,
               value |-> v, text |-> << >>]

FormatCall ==
    /\ fl.phase = "in"
    /\ fl' = [fl EXCEPT !.phase = "out",
                        !.text = format_line(fl.cur, fl.idx, display_t(fl.width, 0),
                                             fl.use_numbers, fl.editing,
                                             [p \in IntVars |-> fl.value])]
    /\ UNCHANGED << root, display, use_numbers, input, initialized, editing, dirty,
                    stack, depth, edit_original, mem, pc, total, just_rendered, choice,
                    screen, renders, io, applied, called, h_edit, h_desc, cv, pl, ct,
                    script >>

NextFormat == FormatCall

SpecFormat == InitFormat /\ [][NextFormat]_vars

(* ------------------------- the polling of a provider called directly ------- *)
(* A provider whose input_ops_t has the members ops non-null is polled as    *)
(* service() polls it while the probes in edges have an edge to report.      *)

InitPoll ==
    /\ make("Empty", SomeHost, SomeInput)
    /\ cv = NoClamp
    /\ fl = NoFormat
    /\ ct = NoCap
    /\ script = NoScript
    /\ \E ops \in SUBSET AllOps, edges \in SUBSET ProbeNames :
         pl = [NoPoll EXCEPT !.phase = "in", !.ops = ops, !.edges = edges]

PollCall ==
    /\ pl.phase = "in"
    /\ pl' = [pl EXCEPT !.phase = "out",
                        !.out = poll_input([cb |-> FALSE, has_src |-> TRUE,
                                            has_ops |-> TRUE, ops |-> pl.ops],
                                           FALSE, FALSE, Choice_Invalid, pl.edges)]
    /\ UNCHANGED << runtime, cv, fl, ct, script >>

NextPoll == PollCall

SpecPoll == InitPoll /\ [][NextPoll]_vars

(* ------------------------- a capability table called directly -------------- *)
(* The operations of the table of tree m are called on index idx: int_set   *)
(* with value v on storage holding mem0, child_at with the output places    *)
(* out, which hold "unset" before the call.                                 *)

OpsMenus == {"Main", "Config", "Demo", "Settings", "Single", "Empty"}
Stored == {7, -7}

InitOps ==
    /\ make("Empty", SomeHost, SomeInput)
    /\ cv = NoClamp
    /\ fl = NoFormat
    /\ pl = NoPoll
    /\ script = NoScript
    /\ \E m \in OpsMenus, idx \in 0..MaxIdx, v \in IntSamples, x \in Stored,
          hc \in BOOLEAN, ho \in BOOLEAN :
         ct = [NoCap EXCEPT !.phase = "in", !.m = m, !.idx = idx, !.v = v,
                            !.mem0 = [p \in IntVars |-> x],
                            !.out = out_t(hc, ho, "unset", "unset")]

OpsCall ==
    /\ ct.phase = "in"
    /\ LET ch == child_at_pack(ct.m, ct.idx, ct.out)
       IN ct' = [ct EXCEPT !.phase = "out",
                           !.type_at = type_at(ct.m, ct.idx),
                           !.int_has = int_has(ct.m, ct.idx),
                           !.int_get = int_get(ct.m, ct.idx, ct.mem0),
                           !.int_min = int_min(ct.m, ct.idx),
                           !.int_max = int_max(ct.m, ct.idx),
                           !.mem = int_set(ct.m, ct.idx, ct.v, ct.mem0),
                           !.ok = ch.ok,
                           !.child_ptr = ch.child_ptr,
                           !.child_ops = ch.child_ops]
    /\ UNCHANGED << runtime, cv, fl, pl, script >>

NextOps == OpsCall

SpecOps == InitOps /\ [][NextOps]_vars

(* ------------------------- a scripted input callback ------------------------ *)
(* The runtime made on the tree "Main" with a prompt callback that returns,  *)
(* call after call, Choice_Invalid any number of times and then the next     *)
(* event of a fixed sequence of MaxScript events.                            *)

MaxScript == 4
Scripts == [1..MaxScript -> {Choice_Up, Choice_Down, Choice_Select, Choice_Cancel}]

InitScript ==
    /\ \E host \in Hosts : make("Main", host, SomeInput)
    /\ cv = NoClamp
    /\ fl = NoFormat
    /\ pl = NoPoll
    /\ ct = NoCap
    /\ \E ev \in Scripts : script = [events |-> ev, pos |-> 0]

(* service() lines 413-418 with the scripted callback *)
ServicePollScript ==
    /\ pc = "rendered"
    /\ \E play \in BOOLEAN :
         LET more == script.pos < Len(script.events)
             ret == IF play /\ more THEN script.events[script.pos + 1] ELSE Choice_Invalid
             r == poll_input(input, just_rendered, editing, ret, {})
         IN /\ choice' = r.choice
            /\ io' = [probed |-> r.probed, taken |-> r.taken, prompt |-> r.prompt]
            /\ script' = IF play /\ more THEN [script EXCEPT !.pos = script.pos + 1]
                          ELSE script
    /\ pc' = "polled"
    /\ UNCHANGED << root, display, use_numbers, input, initialized, editing, dirty,
                    stack, depth, edit_original, mem, total, just_rendered, screen,
                    renders, applied, called, h_edit, h_desc >>
    /\ UNCHANGED << cv, fl, pl, ct >>

NextScript == Begin \/ ServiceClamp \/ ServiceRender \/ ServicePollScript \/ ServiceApply

SpecScript == InitScript /\ [][NextScript]_vars

(* =========================== properties ==================================== *)

Top == stack[depth]
TopCount == count(stack[depth].menu_ptr)

(* C1: in Browsing with count > 0 the top cursor's selected index is always *)
(* in [0, count); an Up event moves it from 0 to count-1 and otherwise down *)
(* by one, a Down event moves it from count-1 to 0 and otherwise up by one. *)
C1_BrowseStep ==
    (pc = "polled" /\ ~editing /\ total > 0 /\ choice \in {Choice_Up, Choice_Down})
    => /\ depth' = depth
       /\ stack[depth].selected \in 0..(total - 1)
       /\ stack'[depth].selected \in 0..(total - 1)
       /\ choice = Choice_Up =>
            stack'[depth].selected =
               IF stack[depth].selected = 0 THEN total - 1
               ELSE stack[depth].selected - 1
       /\ choice = Choice_Down =>
            stack'[depth].selected =
               IF stack[depth].selected = total - 1 THEN 0
               ELSE stack[depth].selected + 1
C1_SelectionWraps ==
    /\ []((~editing /\ TopCount > 0) => Top.selected \in 0..(TopCount - 1))
    /\ [][C1_BrowseStep]_vars

(* an Up event has just wrapped the selection of a four-entry menu from 0 to 3 *)
C1_Witness ==
    /\ pc = "idle" /\ applied = 1 /\ choice = Choice_Up /\ ~editing
    /\ TopCount = 4 /\ Top.selected = 3 /\ Top.top = 0 /\ display.height = 2

SelValue == int_get(Top.menu_ptr, Top.selected, mem)
SelIsInt == TopCount > 0 /\ int_has(Top.menu_ptr, Top.selected)
RuntimeSt == [stack |-> stack, depth |-> depth, editing |-> editing, dirty |-> dirty,
              edit_original |-> edit_original, mem |-> mem, called |-> called]

(* C3: after Select on an Integer entry storing v and any number of Up and  *)
(* Down events, Cancel leaves the stored value exactly v, every other       *)
(* integer and the navigation stack as they were, and the runtime Browsing. *)
C3_CancelStep ==
    (pc = "polled" /\ editing /\ choice = Choice_Cancel)
    => /\ ~editing'
       /\ pc' = "idle"
       /\ int_get(Top.menu_ptr, Top.selected, mem') = h_edit.start
       /\ \A p \in IntVars : p # item_at(Top.menu_ptr, Top.selected).ptr => mem'[p] = mem[p]
       /\ stack' = stack /\ depth' = depth
C3_CancelRestores == [][C3_CancelStep]_vars

(* Cancel has just ended an edit session in which Up/Down events were applied *)
C3_Witness ==
    /\ pc = "idle" /\ choice = Choice_Cancel /\ applied = 1 /\ ~editing
    /\ SelIsInt /\ Len(h_edit.moves) = MaxMoves /\ h_edit.more
    /\ h_edit.moves[1] = Choice_Up
    /\ SelValue = h_edit.start

(* C4: Select while Editing leaves every stored value as last edited and    *)
(* ends the session; an Up below max adds exactly one; so Select, Up,       *)
(* Select on a value v with v+1 <= max leaves v+1 and the runtime Browsing. *)
C4_SelectStep ==
    /\ (pc = "polled" /\ editing /\ choice = Choice_Select)
       => (mem' = mem /\ ~editing' /\ pc' = "idle")
    /\ (pc = "polled" /\ editing /\ choice = Choice_Up
          /\ SelValue < int_max(Top.menu_ptr, Top.selected))
       => (int_get(Top.menu_ptr, Top.selected, mem') = SelValue + 1 /\ editing')
C4_CommitKeeps ==
    /\ []((pc = "idle" /\ choice = Choice_Select /\ applied = 1 /\ ~editing
            /\ SelIsInt /\ h_edit.moves = << Choice_Up >> /\ ~h_edit.more
            /\ h_edit.start + 1 <= int_max(Top.menu_ptr, Top.selected))
          => SelValue = h_edit.start + 1)
    /\ [][C4_SelectStep]_vars

(* Select, Up, Select has just been applied to an entry that stored a value *)
(* other than the one edit_original holds now                               *)
C4_Witness ==
    /\ pc = "idle" /\ choice = Choice_Select /\ applied = 1 /\ ~editing
    /\ SelIsInt /\ h_edit.moves = << Choice_Up >> /\ ~h_edit.more
    /\ SelValue = h_edit.start + 1 /\ edit_original = h_edit.start

(* C5: while Editing, Up on a value equal to max and Down on a value equal  *)
(* to min leave the stored values, the editing flag and the dirty flag as   *)
(* they were.                                                               *)
C5_BoundStep ==
    (/\ pc = "polled" /\ editing /\ SelIsInt
     /\ \/ choice = Choice_Up /\ SelValue = int_max(Top.menu_ptr, Top.selected)
        \/ choice = Choice_Down /\ SelValue = int_min(Top.menu_ptr, Top.selected))
    => (mem' = mem /\ editing' = editing /\ dirty' = dirty)
C5_BoundsNoOp == [][C5_BoundStep]_vars

(* an Up event was applied to a value at its max: still Editing, not dirty *)
C5_Witness ==
    /\ pc = "idle" /\ choice = Choice_Up /\ applied = 1 /\ editing /\ SelIsInt
    /\ SelValue = int_max(Top.menu_ptr, Top.selected) /\ ~dirty
    /\ h_edit.start < SelValue

(* C6: Select on a Submenu at depth MENU_MAX_STACK-1 is a failed push that  *)
(* leaves depth, every stack cursor and dirty unchanged; Cancel in Browsing *)
(* at depth 0 is a failed pop that leaves depth, the root cursor and dirty  *)
(* unchanged.                                                               *)
C6_StackStep ==
    /\ (/\ pc = "polled" /\ ~editing /\ choice = Choice_Select
        /\ depth = MENU_MAX_STACK - 1 /\ total > 0
        /\ type_at(Top.menu_ptr, Top.selected) = ENTRY_MENU)
       => /\ ~push(RuntimeSt, child_at(Top.menu_ptr, Top.selected).child_ptr,
                   child_at(Top.menu_ptr, Top.selected).child_ops).ok
          /\ depth' = depth /\ stack' = stack /\ dirty' = dirty
    /\ (pc = "polled" /\ ~editing /\ choice = Choice_Cancel /\ depth = 0)
       => /\ ~pop(RuntimeSt).ok
          /\ depth' = depth /\ stack' = stack /\ dirty' = dirty
C6_StackBounds == [][C6_StackStep]_vars

(* Select was applied to a Submenu entry at the deepest level and nothing moved *)
C6_Witness ==
    /\ pc = "idle" /\ choice = Choice_Select /\ applied = 1 /\ ~editing
    /\ depth = MENU_MAX_STACK - 1 /\ ~dirty
    /\ type_at(Top.menu_ptr, Top.selected) = ENTRY_MENU

(* C7: every cursor on the navigation stack has 0 <= top <= selected <      *)
(* count when its tree has entries and selected = top = 0 when it has none, *)
(* also between two service() calls.                                        *)
C7_CursorInvariant ==
    \A i \in 0..depth :
        LET c == stack[i]
            n == count(c.menu_ptr)
        IN IF n > 0
           THEN 0 <= c.selected /\ c.selected < n /\ 0 <= c.top /\ c.top <= c.selected
           ELSE c.selected = 0 /\ c.top = 0

(* C8: depth < MENU_MAX_STACK and stack position 0 refers to the root tree  *)
(* handed to make(), in every reachable state.                              *)
C8_DepthAndRoot ==
    /\ depth \in 0..(MENU_MAX_STACK - 1)
    /\ stack[0].menu_ptr = root
    /\ stack[0].ops = root

(* the deepest level has been reached and left again by Cancel *)
C8_Witness ==
    /\ pc = "idle" /\ choice = Choice_Cancel /\ applied = 1
    /\ depth = MENU_MAX_STACK - 2 /\ stack[MENU_MAX_STACK - 1].menu_ptr = "D7"

(* C10: a service() call consumes at most one input event, applies at most  *)
(* one transition and makes at most one render pass.                        *)
C10_OnePerTick ==
    /\ Len(io.taken) <= 1
    /\ applied <= 1
    /\ renders <= 1

(* a tick that rendered, took an event from the provider and applied it *)
C10_Witness ==
    /\ pc = "idle" /\ renders = 1 /\ applied = 1 /\ io.taken = << "down" >>
    /\ input.has_src

(* C2: for every cursor, every total and every height > 0, after clamp_view *)
(* top <= selected < top + height and 0 <= top <= max(0, total - height).   *)
C2_ClampContainment ==
    (cv.phase = "out" /\ cv.height > 0)
    => /\ cv.out.top <= cv.out.selected
       /\ cv.out.selected < cv.out.top + cv.height
       /\ 0 <= cv.out.top
       /\ cv.out.top <= Max(0, cv.total - cv.height)

(* C2 as amended: top <= max(0, total - height) afterwards provided it was  *)
(* so before; the rest for every input.                                     *)
C2_ClampContainmentFromValidTop ==
    (cv.phase = "out" /\ cv.height > 0)
    => /\ cv.out.top <= cv.out.selected
       /\ cv.out.selected < cv.out.top + cv.height
       /\ 0 <= cv.out.top
       /\ cv.c.top <= Max(0, cv.total - cv.height)
            => cv.out.top <= Max(0, cv.total - cv.height)

(* the selection was below the window and top advanced to the last full window *)
C2_Witness ==
    /\ cv.phase = "out" /\ cv.height = 2 /\ cv.total = MaxIdx + 1
    /\ cv.c.top = 0 /\ cv.c.selected = 255
    /\ cv.out.selected = MaxIdx /\ cv.out.top = MaxIdx - 1

(* the row text without any capacity *)
FullText ==
    LET e == item_at("Fmt", fl.idx)
    IN (IF fl.idx = fl.cur.selected THEN << ">" >> ELSE << " " >>)
       \o (IF fl.use_numbers THEN Digits(fl.idx + 1) \o << " " >> ELSE << >>)
       \o e.label
       \o (IF e.type = ENTRY_INT
           THEN << ":", " " >>
                \o (IF fl.value < 0 THEN << "-" >> ELSE << >>)
                \o Digits(IF fl.value < 0 THEN 0 - fl.value ELSE fl.value)
                \o (IF fl.editing /\ fl.idx = fl.cur.selected
                    THEN << " ", " ", "(", "e", "d", "i", "t", ")" >> ELSE << >>)
           ELSE << >>)

(* C9: for every display width the row text format_line builds, terminator  *)
(* included, fits render's MENU_MAX_LINE-byte buffer, and it is the full    *)
(* text with the characters that do not fit dropped from the end.           *)
C9_RowFitsBuffer ==
    fl.phase = "out"
    => /\ Len(fl.text) + 1 <= MENU_MAX_LINE
       /\ fl.text = SubSeq(FullText, 1, Len(fl.text))

(* C11: polling a provider of which several probes have an edge to report   *)
(* yields the event of the first of them in the order up, down, select,     *)
(* cancel, left, right, consumes that edge alone and calls no probe that    *)
(* comes after it in that order.                                            *)
C11_FirstEdgeWins ==
    (pl.phase = "out" /\ (pl.edges \cap pl.ops) # {})
    => \E k \in 1..Len(ProbeOrder) :
         /\ ProbeOrder[k].name \in (pl.edges \cap pl.ops)
         /\ \A j \in 1..(k - 1) : ProbeOrder[j].name \notin (pl.edges \cap pl.ops)
         /\ pl.out.choice = ProbeOrder[k].choice
         /\ pl.out.taken = << ProbeOrder[k].name >>
         /\ \A j \in (k + 1)..Len(ProbeOrder) :
              \A n \in 1..Len(pl.out.probed) : pl.out.probed[n] # ProbeOrder[j].name

(* select, cancel and right pressed together on a provider without a select *)
(* probe: Cancel is the event and right is never asked                      *)
C11_Witness ==
    /\ pl.phase = "out" /\ pl.edges = {"select", "cancel", "right"}
    /\ pl.ops = AllOps \ {"select"}
    /\ pl.out.choice = Choice_Cancel
    /\ pl.out.probed = << "capture", "up", "down", "cancel" >>

(* C12: a service() call clamps, then renders if dirty, then polls, then     *)
(* applies; dirty is clear whenever the input is polled; an event that      *)
(* changes the stack, the depth, the editing flag, edit_original or an      *)
(* integer leaves dirty set, dirty stays set until the next call, and that  *)
(* call renders the state as it is before it polls.                         *)
C12_TickStep ==
    /\ pc = "idle" => pc' \in {"idle", "clamped"}
    /\ (pc = "idle" /\ initialized /\ dirty) => dirty'
    /\ pc = "clamped"
         => /\ pc' = "rendered"
            /\ choice' = choice /\ io' = io
            /\ IF dirty
               THEN /\ renders' = renders + 1
                    /\ screen' = render(stack[depth], display, use_numbers, editing, mem)
               ELSE renders' = renders /\ screen' = screen
    /\ pc = "rendered"
         => /\ pc' = "polled"
            /\ renders' = renders /\ screen' = screen
            /\ RuntimeSt' = RuntimeSt
    /\ pc = "polled"
         => /\ pc' = "idle"
            /\ renders' = renders /\ io' = io
            /\ << stack, depth, editing, edit_original, mem >>'
                   # << stack, depth, editing, edit_original, mem >> => dirty'
C12_ClampRenderPollApply ==
    /\ [](pc \in {"rendered", "polled"} => ~dirty)
    /\ [][C12_TickStep]_vars

(* the call after the one whose Down event lowered the edited value has    *)
(* rendered and is about to poll                                           *)
C12_Witness ==
    /\ pc = "rendered" /\ renders = 1 /\ just_rendered /\ editing /\ SelIsInt
    /\ h_edit.moves = << Choice_Down >> /\ SelValue = h_edit.start - 1
    /\ io = NoIo

(* the events of the scenario and the state reached when the first n of    *)
(* them have been applied                                                  *)
Scenario == << Choice_Select, Choice_Select, Choice_Down, Choice_Cancel >>
After(n) ==
    /\ root = "Main" /\ script.pos = n /\ pc # "polled"
    /\ \A i \in 1..Len(Scenario) : script.events[i] = Scenario[i]

(* C13: on the tree Main {Submenu Config {Integer Volume [0,10] = 5},      *)
(* Action Blink}, from the root with selected = 0, Select, Select lead to   *)
(* depth 1 in Config, Editing on Volume with edit_original = 5; Down then   *)
(* makes Volume 4; Cancel then makes it 5 again and ends Editing at depth 1.*)
C13_Scenario ==
    /\ After(0) => (depth = 0 /\ Top.menu_ptr = "Main" /\ Top.selected = 0
                    /\ mem["volume"] = 5 /\ ~editing)
    /\ After(2) => (depth = 1 /\ Top.menu_ptr = "Config" /\ editing
                    /\ item_at("Config", Top.selected).ptr = "volume"
                    /\ edit_original = 5 /\ mem["volume"] = 5)
    /\ After(3) => (mem["volume"] = 4 /\ editing /\ depth = 1)
    /\ After(4) => (mem["volume"] = 5 /\ ~editing /\ depth = 1
                    /\ Top.menu_ptr = "Config")

(* the four events have been applied and the last call has returned *)
C13_Witness ==
    /\ After(4) /\ pc = "idle" /\ choice = Choice_Cancel /\ applied = 1
    /\ mem["volume"] = 5 /\ edit_original = 5 /\ depth = 1 /\ ~editing

(* C14: while the displayed tree has no entries its cursor has selected =   *)
(* top = 0 and the runtime is not Editing, whatever event is applied (Up,   *)
(* Down, Select, Cancel, Left, Right or none), and a render pass of that    *)
(* tree writes no row.                                                      *)
C14_EmptyStep ==
    (pc = "polled" /\ TopCount = 0)
    => /\ stack'[depth] = stack[depth]
       /\ ~editing'
       /\ TopCount' = 0 => (depth' = depth /\ stack' = stack)
C14_EmptyTree ==
    /\ [](TopCount = 0 => (Top.selected = 0 /\ Top.top = 0 /\ ~editing))
    /\ []((TopCount = 0 /\ pc \in {"rendered", "polled"} /\ renders = 1)
           => screen = << >>)
    /\ [][C14_EmptyStep]_vars

(* the empty submenu of Demo was rendered and a Select event applied to it *)
C14_Witness ==
    /\ pc = "idle" /\ applied = 1 /\ choice = Choice_Select /\ renders = 1
    /\ depth = 1 /\ Top.menu_ptr = "Empty" /\ TopCount = 0 /\ screen = << >>
    /\ stack[0].selected = 3 /\ ~dirty

(* C15: on an entry of any kind the operations of the capability table     *)
(* return: int_has is true exactly for Integer entries; for an Action or a  *)
(* Submenu entry int_get, int_min and int_max are 0 and int_set leaves the  *)
(* storage as it was; child_at fails and leaves both output places as they  *)
(* were for Integer and Action entries and, given places for both outputs,  *)
(* succeeds with the child tree and its table for a Submenu entry.          *)
C15_InertOnWrongKind ==
    (ct.phase = "out" /\ ct.idx < count(ct.m))
    => LET e == items(ct.m)[ct.idx + 1]
       IN /\ ct.int_has = (e.type = ENTRY_INT)
          /\ e.type \in {ENTRY_FUNC, ENTRY_MENU}
               => /\ ct.int_get = 0 /\ ct.int_min = 0 /\ ct.int_max = 0
                  /\ ct.mem = ct.mem0
          /\ e.type \in {ENTRY_INT, ENTRY_FUNC}
               => /\ ~ct.ok
                  /\ ct.child_ptr = ct.out.child_ptr
                  /\ ct.child_ops = ct.out.child_ops
          /\ (e.type = ENTRY_MENU /\ ct.out.has_child /\ ct.out.has_ops)
               => /\ ct.ok
                  /\ ct.child_ptr = e.child
                  /\ ct.child_ops = e.child

(* the operations were called on the Action entry Reset of Demo with a     *)
(* value to store and places for both outputs                              *)
C15_Witness ==
    /\ ct.phase = "out" /\ ct.m = "Demo" /\ ct.idx = 1 /\ ct.type_at = ENTRY_FUNC
    /\ ct.v = 12345 /\ ct.mem0["volume"] = 7 /\ ct.mem = ct.mem0
    /\ ct.out.has_child /\ ct.out.has_ops /\ ~ct.ok /\ ct.child_ptr = "unset"

(* C16: a runtime made with a prompt callback calls it exactly once in a    *)
(* service() call, after the render step; the prompt it passes is not empty *)
(* exactly when that call has rendered, and is then the edit prompt when    *)
(* the runtime is Editing and the browse prompt when it is not.             *)
C16_PromptStep ==
    (input.cb /\ pc = "polled") => (io' = io /\ pc' = "idle")
C16_PromptOncePerTick ==
    /\ [](input.cb =>
            /\ pc \in {"clamped", "rendered"} => io.probed = << >>
            /\ pc = "polled"
                 => /\ io.probed = << "input_cb" >>
                    /\ (io.prompt # "") <=> (renders = 1)
                    /\ io.prompt # "" =>
                         io.prompt = (IF editing THEN PROMPT_EDIT ELSE PROMPT_BROWSE))
    /\ [][C16_PromptStep]_vars

(* the callback was called with the edit prompt in a call that rendered,   *)
(* and the call has returned                                               *)
C16_Witness ==
    /\ input.cb /\ pc = "idle" /\ io.probed = << "input_cb" >>
    /\ io.prompt = PROMPT_EDIT /\ renders = 1 /\ choice = Choice_Invalid /\ editing

(* C17: in Browsing, Select on a Submenu entry at a depth below             *)
(* MENU_MAX_STACK - 1 adds exactly one to depth, makes the new top cursor   *)
(* the entry's child tree with selected = 0 and top = 0, leaves every       *)
(* cursor below it as it was, keeps the runtime Browsing and sets dirty.    *)
C17_DescendStep ==
    (/\ pc = "polled" /\ ~editing /\ choice = Choice_Select /\ total > 0
     /\ items(Top.menu_ptr)[Top.selected + 1].type = ENTRY_MENU
     /\ depth < MENU_MAX_STACK - 1)
    => LET child == items(Top.menu_ptr)[Top.selected + 1].child
       IN /\ depth' = depth + 1
          /\ stack'[depth + 1] = menu_cursor_t(child, child, 0, 0)
          /\ \A i \in 0..depth : stack'[i] = stack[i]
          /\ ~editing'
          /\ dirty'
C17_SelectDescends == [][C17_DescendStep]_vars

(* Select at depth MENU_MAX_STACK - 2 has entered the tree D7 at the deepest *)
(* level of the stack                                                       *)
C17_Witness ==
    /\ pc = "idle" /\ applied = 1 /\ choice = Choice_Select /\ ~editing /\ dirty
    /\ depth = MENU_MAX_STACK - 1
    /\ Top = menu_cursor_t("D7", "D7", 0, 0)
    /\ stack[depth - 1].menu_ptr = "D6"

(* C18: in Browsing, Select on an Action entry calls the entry's callback   *)
(* once when it has one and calls nothing when it has none; either way      *)
(* dirty is set and the stack with its selections, the depth and the        *)
(* editing flag stay as they were.                                          *)
C18_ActionStep ==
    (/\ pc = "polled" /\ ~editing /\ choice = Choice_Select /\ total > 0
     /\ items(Top.menu_ptr)[Top.selected + 1].type = ENTRY_FUNC)
    => LET fn == items(Top.menu_ptr)[Top.selected + 1].fn
       IN /\ called = << >>
          /\ called' = IF fn # "null" THEN << fn >> ELSE << >>
          /\ dirty'
          /\ stack' = stack /\ depth' = depth
          /\ editing' = editing
C18_SelectInvokes == [][C18_ActionStep]_vars

(* Select on the Action Reset of Demo has called fn_reset once *)
C18_Witness ==
    /\ pc = "idle" /\ applied = 1 /\ choice = Choice_Select /\ ~editing /\ dirty
    /\ Top.menu_ptr = "Demo" /\ Top.selected = 1 /\ called = << "fn_reset" >>
    /\ renders = 0

(* C19: in Browsing an Up or Down event sets dirty exactly when it changes  *)
(* the selected index; on a tree of one entry or none it changes nothing    *)
(* and leaves dirty clear, dirty stays clear until the next service() call  *)
(* and that call makes no render pass.                                      *)
C19_MoveStep ==
    /\ (pc = "polled" /\ ~editing /\ choice \in {Choice_Up, Choice_Down})
       => /\ ~dirty
          /\ dirty' <=> (stack'[depth].selected # stack[depth].selected)
          /\ total <= 1 => (~dirty' /\ stack' = stack)
    /\ (pc = "idle" /\ initialized /\ ~dirty) => ~dirty'
    /\ (pc = "clamped" /\ ~dirty) => (renders' = 0 /\ ~just_rendered')
C19_DirtyIffMoved == [][C19_MoveStep]_vars

(* a Down event was applied to the one-entry tree Single: nothing to redraw *)
C19_Witness ==
    /\ pc = "idle" /\ applied = 1 /\ choice = Choice_Down /\ ~editing /\ ~dirty
    /\ root = "Single" /\ TopCount = 1 /\ Top.selected = 0 /\ renders = 0

(* C20: in Browsing and in Editing, a service() call whose event is Left,   *)
(* Right or none returns with every cursor of the stack (selected and top), *)
(* the depth, the editing flag, edit_original, every integer and dirty as   *)
(* its render step left them.                                               *)
C20_NoOpStep ==
    /\ pc = "rendered"
         => /\ stack' = stack /\ depth' = depth /\ editing' = editing
            /\ edit_original' = edit_original /\ mem' = mem /\ dirty' = dirty
    /\ (pc = "polled" /\ choice \in {Choice_Left, Choice_Right, Choice_Invalid})
         => /\ stack' = stack /\ depth' = depth /\ editing' = editing
            /\ edit_original' = edit_original /\ mem' = mem /\ dirty' = dirty
            /\ called' = << >>
            /\ pc' = "idle"
C20_LeftRightNoneNoOp == [][C20_NoOpStep]_vars

(* a Left event arrived while Editing a value that had been raised: still  *)
(* Editing, nothing to redraw                                              *)
C20_Witness ==
    /\ pc = "idle" /\ applied = 1 /\ choice = Choice_Left /\ editing /\ ~dirty
    /\ SelIsInt /\ h_edit.moves = << Choice_Up >> /\ SelValue = h_edit.start + 1
    /\ edit_original = h_edit.start

(* the storage the selected entry points to, for an Integer entry *)
SelPtr == items(Top.menu_ptr)[Top.selected + 1].ptr

(* C21: the storage of an Integer entry changes only in Editing, on Up,     *)
(* Down or Cancel, and only the storage of the selected entry of the top    *)
(* cursor; no event in Browsing changes any storage.                        *)
C21_WriteStep ==
    mem' # mem
    => /\ pc = "polled" /\ editing /\ SelIsInt
       /\ choice \in {Choice_Up, Choice_Down, Choice_Cancel}
       /\ \A p \in IntVars : p # SelPtr => mem'[p] = mem[p]
C21_OnlyEditingWrites == [][C21_WriteStep]_vars

(* C21 as amended: the storage changes either in Editing, on Up, Down or    *)
(* Cancel, and then only the storage of the selected entry of the top       *)
(* cursor, or in Browsing on Select of an Action entry, whose callback has  *)
(* been called; no other step changes it.                                   *)
C21_WriteOrCallbackStep ==
    mem' # mem
    => /\ pc = "polled"
       /\ \/ /\ editing /\ SelIsInt
             /\ choice \in {Choice_Up, Choice_Down, Choice_Cancel}
             /\ \A p \in IntVars : p # SelPtr => mem'[p] = mem[p]
             /\ called' = << >>
          \/ /\ ~editing /\ choice = Choice_Select /\ total > 0
             /\ items(Top.menu_ptr)[Top.selected + 1].type = ENTRY_FUNC
             /\ called' = << items(Top.menu_ptr)[Top.selected + 1].fn >>
             /\ mem' = fn_effect(items(Top.menu_ptr)[Top.selected + 1].fn, mem)
C21_OnlyEditingOrCallbackWrites == [][C21_WriteOrCallbackStep]_vars

(* a Down event has lowered speed in Settings while the other integers     *)
(* hold what they held at the start                                        *)
C21_Witness ==
    /\ pc = "idle" /\ applied = 1 /\ choice = Choice_Down /\ editing
    /\ Top.menu_ptr = "Settings" /\ SelPtr = "speed"
    /\ h_edit.start = 3 /\ h_edit.moves = << Choice_Down >>
    /\ mem = [InitialInts EXCEPT !["speed"] = 2]

(* the rows a render pass of the top cursor has to write *)
Window == IF display.height = 0 THEN TopCount ELSE display.height
RowsWritten ==
    /\ Len(screen) = Min(Window, TopCount)
    /\ \A k \in 1..Len(screen) :
         /\ screen[k].row = k - 1
         /\ screen[k].row < Window
         /\ screen[k].text = format_line(Top, Top.top + (k - 1), display, use_numbers,
                                         editing, mem)
    /\ Top.top <= Top.selected
    /\ Top.selected < Top.top + Len(screen)

(* C22: a render pass of a cursor with count > 0 writes exactly             *)
(* min(window, count) rows, numbered 0, 1, ... in increasing order and      *)
(* below the window height, row r showing entry top + r; the selected entry *)
(* is one of them and its row is the only one that carries the marker '>'.  *)
C22_RenderWindow ==
    (renders = 1 /\ pc \in {"rendered", "polled"} /\ TopCount > 0)
    => /\ RowsWritten
       /\ \A k \in 1..Len(screen) :
            (Len(screen[k].text) > 0 /\ screen[k].text[1] = ">")
            <=> (Top.top + (k - 1) = Top.selected)

(* the rows are the window of the entries also where the marker is lost *)
C22_RowsOnly ==
    (renders = 1 /\ pc \in {"rendered", "polled"} /\ TopCount > 0) => RowsWritten

(* C23: while the runtime is Editing no event changes the depth, the tree   *)
(* any stack cursor refers to or the selected index of the top cursor:      *)
(* Cancel at depth > 0 ends the edit without popping, Up and Down do not    *)
(* move the selection.                                                      *)
C23_EditingStep ==
    (pc = "polled" /\ editing)
    => /\ depth' = depth
       /\ \A i \in 0..(MENU_MAX_STACK - 1) :
            stack'[i].menu_ptr = stack[i].menu_ptr /\ stack'[i].ops = stack[i].ops
       /\ stack'[depth].selected = stack[depth].selected
       /\ choice = Choice_Cancel => (~editing' /\ stack' = stack)
       /\ choice \in {Choice_Up, Choice_Down} => (editing' /\ stack' = stack)
C23_EditingKeepsPlace == [][C23_EditingStep]_vars

(* Cancel has ended an edit of the second entry of Settings at depth 1 *)
C23_Witness ==
    /\ pc = "idle" /\ applied = 1 /\ choice = Choice_Cancel /\ ~editing
    /\ depth = 1 /\ Top.menu_ptr = "Settings" /\ Top.selected = 1
    /\ h_edit.moves = << Choice_Down >> /\ stack[0].menu_ptr = "Demo"

(* C24: whenever the editing flag is set the tree of the top cursor has     *)
(* entries and its selected entry is an Integer entry, so an event that     *)
(* arrives while Editing never takes the defensive exit of line 432.        *)
C24_EditingOnInteger ==
    editing
    => /\ TopCount > 0
       /\ Top.selected < TopCount
       /\ items(Top.menu_ptr)[Top.selected + 1].type = ENTRY_INT
       /\ int_has(Top.menu_ptr, Top.selected)

(* Select has entered Editing on the second entry of Settings, between an  *)
(* Integer and an Action entry                                             *)
C24_Witness ==
    /\ pc = "idle" /\ applied = 1 /\ choice = Choice_Select /\ editing /\ dirty
    /\ depth = 1 /\ Top.menu_ptr = "Settings" /\ Top.selected = 1
    /\ edit_original = mem["level"]
    /\ items("Settings")[3].type = ENTRY_FUNC

(* C25: after Select has descended into a submenu, whatever events follow,  *)
(* the Cancel that returns to the parent's depth finds the parent cursor    *)
(* with the tree, selected and top it had at the descent; and every descent *)
(* into a submenu starts at selected = 0, top = 0, wherever the cursor of   *)
(* that level was left before.                                              *)
C25_RoundTripStep ==
    /\ (pc = "polled" /\ depth' > depth)
         => /\ depth' = depth + 1 /\ choice = Choice_Select
            /\ stack'[depth'].selected = 0 /\ stack'[depth'].top = 0
            /\ stack'[depth] = stack[depth]
    /\ (pc = "polled" /\ depth' < depth)
         => /\ depth' = depth - 1 /\ choice = Choice_Cancel
            /\ stack'[depth'] = h_desc[depth']
    /\ \A i \in 0..(MENU_MAX_STACK - 1) : i < depth => stack'[i] = stack[i]
C25_DescendBackRoundTrip ==
    /\ [](\A i \in 0..(MENU_MAX_STACK - 1) : i < depth => h_desc[i] = stack[i])
    /\ [][C25_RoundTripStep]_vars

(* Cancel has returned to the last entry of Deep from the submenu D1 *)
C25_Witness ==
    /\ pc = "idle" /\ applied = 1 /\ choice = Choice_Cancel /\ ~editing /\ dirty
    /\ depth = 0 /\ root = "Deep" /\ stack[0].selected = 1 /\ stack[0].top = 1
    /\ stack[1].menu_ptr = "D1"

SelMin == int_min(Top.menu_ptr, Top.selected)
SelMax == int_max(Top.menu_ptr, Top.selected)
InRange(v) == SelMin <= v /\ v <= SelMax

(* C26: when the value of an Integer entry is in [min, max] as Editing is   *)
(* entered, it is in [min, max] after every Up, Down, Select and Cancel of  *)
(* that edit session, and an Up or a Down changes it by at most 1.          *)
C26_EditStep ==
    /\ (pc = "polled" /\ editing /\ choice \in {Choice_Up, Choice_Down})
         => LET w == int_get(Top.menu_ptr, Top.selected, mem')
            IN w - SelValue \in {-1, 0, 1}
    /\ (pc = "polled" /\ editing /\ InRange(h_edit.start)
           /\ choice \in {Choice_Up, Choice_Down, Choice_Select, Choice_Cancel})
         => LET w == int_get(Top.menu_ptr, Top.selected, mem')
            IN SelMin <= w /\ w <= SelMax
C26_StaysInRange ==
    /\ []((editing /\ InRange(h_edit.start)) => InRange(SelValue))
    /\ [][C26_EditStep]_vars

(* an Up event has raised speed from 3 to its max 4 *)
C26_Witness ==
    /\ pc = "idle" /\ applied = 1 /\ choice = Choice_Up /\ editing /\ dirty
    /\ SelPtr = "speed" /\ h_edit.start = 3 /\ SelValue = SelMax /\ SelMax = 4
    /\ h_edit.moves = << Choice_Up >>

(* C27: a service() call renders only when dirty was set by make() or      *)
(* begin() and no call has rendered since, or by the event of the call      *)
(* before it; a call without an event returns with dirty clear, dirty stays *)
(* clear between calls, and the next call then makes no render pass.        *)
C27_RenderStep ==
    /\ pc = "idle"
         => /\ dirty' # dirty => (~initialized /\ dirty')
            /\ renders' = 0
    /\ pc = "clamped"
         => /\ renders' = (IF dirty THEN 1 ELSE 0)
            /\ just_rendered' = dirty
            /\ ~dirty => screen' = << >>
    /\ pc = "rendered" => (renders' = renders /\ ~dirty /\ ~dirty')
    /\ pc = "polled"
         => /\ renders' = renders
            /\ dirty' => (choice # Choice_Invalid /\ applied' = 1)
            /\ choice = Choice_Invalid => ~dirty'
C27_RenderOnlyWhenDirty == [][C27_RenderStep]_vars

(* a call that did not render and got no event from the callback has       *)
(* returned                                                                *)
C27_Witness ==
    /\ pc = "idle" /\ initialized /\ ~dirty /\ renders = 0 /\ applied = 0
    /\ choice = Choice_Invalid /\ input.cb /\ io.probed = << "input_cb" >>
    /\ io.prompt = "" /\ screen = << >> /\ depth = 1

====
